---- MODULE Spec2Model ----
(***************************************************************************)
(* A model of bitmapy.py: BitmapHeaderInfo (header parser / serializer),   *)
(* Pixel (snapshot + back reference) and Bitmap (pixel buffer).            *)
(* Files, header blocks and the pixel buffer are sequences of byte values; *)
(* Python's slicing, negative indexing, int.from_bytes and file.read are   *)
(* modelled by what they do, including their failure cases.                *)
(***************************************************************************)
EXTENDS Integers, Sequences, FiniteSets, TLC

\* ---------------------------------------------------------------- constants
HEADER_LENGTH == 14
INT_SIZE == 4
SHORT_SIZE == 2
BITS_PER_BYTE == 8
LOC_BMP_SIZE == 2
LOC_BMP_START_OFFSET == 10
BITMAPINFOHEADER == 40

KEY_WIDTH == "width"
KEY_HEIGHT == "height"
KEY_COLOR_PLANE_COUNT == "color_plane_count"
KEY_BITS_PER_PIXEL == "bits_per_pixel"
KEY_COMPRESSION_METHOD == "compression_method"
KEY_RAW_IMG_SIZE == "raw_img_size"
KEY_HORIZONTAL_RESOLUTION == "horizontal_resolution"
KEY_VERTICAL_RESOLUTION == "vertical_resolution"
KEY_COLOR_PALETTE_COUNT == "color_palette_count"
KEY_IMPORTANT_COLOR_COUNT == "important_color_count"

\* HEADER_MAP[tag][key] = <<offset in the DIB body, byte count>>
HEADER_MAP ==
  (BITMAPINFOHEADER :> [k \in {KEY_WIDTH, KEY_HEIGHT, KEY_COLOR_PLANE_COUNT,
                               KEY_BITS_PER_PIXEL, KEY_COMPRESSION_METHOD,
                               KEY_RAW_IMG_SIZE, KEY_HORIZONTAL_RESOLUTION,
                               KEY_VERTICAL_RESOLUTION, KEY_COLOR_PALETTE_COUNT,
                               KEY_IMPORTANT_COLOR_COUNT} |->
     CASE k = KEY_WIDTH -> <<0, INT_SIZE>>
       [] k = KEY_HEIGHT -> <<4, INT_SIZE>>
       [] k = KEY_COLOR_PLANE_COUNT -> <<8, SHORT_SIZE>>
       [] k = KEY_BITS_PER_PIXEL -> <<10, SHORT_SIZE>>
       [] k = KEY_COMPRESSION_METHOD -> <<12, INT_SIZE>>
       [] k = KEY_RAW_IMG_SIZE -> <<16, INT_SIZE>>
       [] k = KEY_HORIZONTAL_RESOLUTION -> <<20, INT_SIZE>>
       [] k = KEY_VERTICAL_RESOLUTION -> <<24, INT_SIZE>>
       [] k = KEY_COLOR_PALETTE_COUNT -> <<28, INT_SIZE>>
       [] k = KEY_IMPORTANT_COLOR_COUNT -> <<32, INT_SIZE>>])

\* ------------------------------------------------- exceptions (by message)
NoError == "none"
ReadLengthError == "ValueError: read length must be non-negative or -1"
HeaderKeyError == "KeyError: dib header type"
TupleLengthError == "IndexError: Your pixel tuple should have bytes_per_pixel values"
ByteIndexError == "IndexError: bytearray index out of range"
ByteValueError == "ValueError: byte must be in range(0, 256)"
DivisionError == "ZeroDivisionError"

\* ------------------------------------------------------ Python primitives
ByteRange == 256

\* s[a:b] on a bytes / bytearray object: negative bounds count from the end,
\* then both are clamped to 0 .. len(s); an empty or inverted range is empty.
PyClamp(i, n) == IF i < 0 THEN (IF i + n < 0 THEN 0 ELSE i + n)
                 ELSE (IF i > n THEN n ELSE i)

PySlice(s, a, b) ==
  LET lo == PyClamp(a, Len(s))
      hi == PyClamp(b, Len(s))
  IN IF lo >= hi THEN << >> ELSE SubSeq(s, lo + 1, hi)

\* int.from_bytes(s, 'little'); the empty sequence decodes to 0.
RECURSIVE from_bytes(_)
from_bytes(s) ==
  IF s = << >> THEN 0 ELSE Head(s) + ByteRange * from_bytes(Tail(s))

\* file.read(n) on a buffered binary stream over data f with the cursor at pos:
\* n = -1 reads to the end, n < -1 raises, otherwise at most n bytes are returned.
FileRead(f, pos, n) ==
  IF n < -1 THEN [err |-> ReadLengthError, data |-> << >>, pos |-> pos]
  ELSE LET end == IF n = -1 \/ pos + n > Len(f) THEN Len(f) ELSE pos + n
       IN [err |-> NoError, data |-> PySlice(f, pos, end), pos |-> end]

\* --------------------------------------------------------- BitmapHeaderInfo
\* __get_val_from_header: 4 bytes of the file header at offset, little endian.
get_val_from_header(header, offset) ==
  LET start_ptr == offset
      end_ptr == start_ptr + INT_SIZE
  IN from_bytes(PySlice(header, start_ptr, end_ptr))

\* __get_val_from_dib_header: HEADER_MAP[type][key] locates the field in the body.
\* (Called only with a type that is a key of HEADER_MAP: __init__ raises otherwise.)
get_val_from_dib_header(dib_header_type, dib_header, key) ==
  LET start_index == HEADER_MAP[dib_header_type][key][1]
      byte_count == HEADER_MAP[dib_header_type][key][2]
      end_index == start_index + byte_count
  IN from_bytes(PySlice(dib_header, start_index, end_index))

NoHeaderInfo(e) ==
  [err |-> e, header |-> << >>, bmpSize |-> 0, bmpStartOffset |-> 0,
   dib_header_len_bytes |-> << >>, dib_header_type |-> 0, dib_header |-> << >>,
   bits_per_pixel |-> 0, other_headers |-> << >>, pos |-> 0]

\* BitmapHeaderInfo.__init__(file): the object built from stream f, or the
\* exception it raises (err); pos is the stream's cursor afterwards.
BitmapHeaderInfo_init(f) ==
  LET r1 == FileRead(f, 0, HEADER_LENGTH)
      header == r1.data
      bmpSize == get_val_from_header(header, LOC_BMP_SIZE)
      bmpStartOffset == get_val_from_header(header, LOC_BMP_START_OFFSET)
      r2 == FileRead(f, r1.pos, INT_SIZE)
      dib_header_len == from_bytes(r2.data)
      r3 == FileRead(f, r2.pos, dib_header_len - INT_SIZE)
      header_before_image_data == bmpStartOffset - (HEADER_LENGTH + dib_header_len)
      r4 == IF header_before_image_data = 0
            THEN [err |-> NoError, data |-> << >>, pos |-> r3.pos]
            ELSE FileRead(f, r3.pos, header_before_image_data)
  IN IF r3.err # NoError THEN NoHeaderInfo(r3.err)
     ELSE IF dib_header_len \notin DOMAIN HEADER_MAP THEN NoHeaderInfo(HeaderKeyError)
     ELSE IF r4.err # NoError THEN NoHeaderInfo(r4.err)
     ELSE [err |-> NoError, header |-> header, bmpSize |-> bmpSize,
           bmpStartOffset |-> bmpStartOffset,
           dib_header_len_bytes |-> r2.data, dib_header_type |-> dib_header_len,
           dib_header |-> r3.data,
           bits_per_pixel |-> get_val_from_dib_header(dib_header_len, r3.data,
                                                      KEY_BITS_PER_PIXEL),
           other_headers |-> r4.data, pos |-> r4.pos]

\* BitmapHeaderInfo.width / bits_per_pixel / bytes_per_pixel
info_width(h) == get_val_from_dib_header(h.dib_header_type, h.dib_header, KEY_WIDTH)

bits_per_pixel(h) == h.bits_per_pixel

\* int(bits / 8): a float division truncated, the floor for these magnitudes
bytes_per_pixel(h) == bits_per_pixel(h) \div BITS_PER_BYTE

\* write_header without the bytes between the DIB header and the pixel array
write_header_without_other_headers(h) ==
  h.header \o h.dib_header_len_bytes \o h.dib_header

\* BitmapHeaderInfo.write_header: the four captured blocks, in order
write_header(h) ==
  h.header \o h.dib_header_len_bytes \o h.dib_header \o h.other_headers

\* ------------------------------------------------------------------- Bitmap
\* Bitmap.__init__: the header, then everything left in the stream
Bitmap_init(f) ==
  LET h == BitmapHeaderInfo_init(f)
  IN IF h.err # NoError THEN [err |-> h.err, info |-> h, bytes |-> << >>]
     ELSE [err |-> NoError, info |-> h, bytes |-> FileRead(f, h.pos, -1).data]

\* Bitmap.width
width(h) == info_width(h)

\* Bitmap.height: int((len(bytes) / bytes_per_pixel) / width)
height(h, b) ==
  IF bytes_per_pixel(h) = 0 \/ width(h) = 0
  THEN [err |-> DivisionError, val |-> 0]
  ELSE [err |-> NoError, val |-> (Len(b) \div bytes_per_pixel(h)) \div width(h)]

\* Pixel(bmp, x, y, pixel_data); the back reference is implicit (one bitmap)
Pixel(x, y, pixel_data) == [x |-> x, y |-> y, pixel_data |-> pixel_data]

\* Bitmap.get_pixel: a slice of the buffer, never an exception
get_pixel(h, b, x, y) ==
  LET bpp == bytes_per_pixel(h)
      start_ptr == (x + (y * width(h))) * bpp
      end_ptr == start_ptr + bpp
  IN Pixel(x, y, PySlice(b, start_ptr, end_ptr))

\* bytearray.__setitem__(idx, v): the buffer after the store, or the errors
\* the store can raise. A value outside 0..255 and an index outside the buffer
\* both raise; which of the two is reported when both apply depends on the
\* interpreter version, so both are possible outcomes.
StoreByte(b, idx, v) ==
  LET i == IF idx < 0 THEN idx + Len(b) ELSE idx
      badIndex == i < 0 \/ i >= Len(b)
      badValue == v < 0 \/ v >= ByteRange
  IN [errs |-> (IF badIndex THEN {ByteIndexError} ELSE {}) \cup
               (IF badValue THEN {ByteValueError} ELSE {}),
      bytes |-> IF badIndex \/ badValue THEN b ELSE [b EXCEPT ![i + 1] = v]]

\* the loop of set_pixel from iteration i on: stores until one raises
RECURSIVE StoreLoop(_, _, _, _, _)
StoreLoop(b, start_ptr, pixel, i, n) ==
  IF i >= n THEN [errs |-> {NoError}, bytes |-> b]
  ELSE LET r == StoreByte(b, start_ptr + i, pixel[i + 1])
       IN IF r.errs # {} THEN r
          ELSE StoreLoop(r.bytes, start_ptr, pixel, i + 1, n)

\* set_pixel with the row term of the offset left out
set_pixel_without_row(h, b, x, y, pixel) ==
  LET bpp == bytes_per_pixel(h)
      start_ptr == x * bpp
  IN IF Len(pixel) # bpp THEN [errs |-> {TupleLengthError}, bytes |-> b]
     ELSE StoreLoop(b, start_ptr, pixel, 0, bpp)

\* set_pixel rejecting only tuples that are too short
set_pixel_accepting_longer(h, b, x, y, pixel) ==
  LET bpp == bytes_per_pixel(h)
      start_ptr == (x + (y * width(h))) * bpp
  IN IF Len(pixel) < bpp THEN [errs |-> {TupleLengthError}, bytes |-> b]
     ELSE StoreLoop(b, start_ptr, pixel, 0, bpp)

\* Bitmap.set_pixel: the arity check, then the stores one byte at a time
set_pixel(h, b, x, y, pixel) ==
  LET bpp == bytes_per_pixel(h)
      start_ptr == (x + (y * width(h))) * bpp
  IN IF Len(pixel) # bpp THEN [errs |-> {TupleLengthError}, bytes |-> b]
     ELSE StoreLoop(b, start_ptr, pixel, 0, bpp)

\* Bitmap.save_as: the header blocks, then the buffer
save_as(h, b) == write_header(h) \o b

\* Bitmap.enumerate_pixels, the generator's first step: the three locals
enumerate_start(h, b) ==
  IF bytes_per_pixel(h) = 0
  THEN [err |-> DivisionError, pixel_count |-> 0, bmp_width |-> 0]
  ELSE [err |-> NoError, pixel_count |-> Len(b) \div bytes_per_pixel(h),
        bmp_width |-> width(h)]

\* the pointer with column and row exchanged
pixel_ptr_column_major(k, bmp_width) == <<k \div bmp_width, k % bmp_width>>

\* the pointer the generator expression makes of linear index k
pixel_ptr(k, bmp_width) == <<k % bmp_width, k \div bmp_width>>

\* =================================================================== inputs
MaxWidth == 2
MaxPixelBytes == 3

BitDepths == {8, 16}
\* channel values a caller passes: two bytes and one value that is no byte
Channel == {7, 8, 300}
\* pixel tuples of every arity up to two channels: all one-channel tuples, and
\* two-channel tuples with the value that is no byte nowhere, last and first
PixelTuples ==
  {<< >>} \cup {<<c>> : c \in Channel} \cup {<<7, 8>>, <<7, 300>>, <<300, 7>>}
\* coordinates a caller passes
Xs == {-1, 0, 1, 2}
Ys == {-1, 0, 1}

\* v as n little-endian bytes
RECURSIVE to_bytes(_, _)
to_bytes(v, n) ==
  IF n = 0 THEN << >> ELSE <<v % ByteRange>> \o to_bytes(v \div ByteRange, n - 1)

Filler(first, n) == [i \in 1..n |-> first + i - 1]

\* A BMP file: the 14-byte file header naming offset off, the DIB length
\* field tag, a DIB body of tag - 4 bytes laid out as BITMAPINFOHEADER, the
\* bytes up to off (if any), and npix bytes of pixel data.
BmpFile(w, bits, off, tag, npix) ==
  LET body == to_bytes(w, INT_SIZE) \o to_bytes(1, INT_SIZE) \o
              to_bytes(1, SHORT_SIZE) \o to_bytes(bits, SHORT_SIZE) \o
              [i \in 1..24 |-> 0]
      dib == IF tag > INT_SIZE THEN PySlice(body, 0, tag - INT_SIZE) ELSE << >>
      gap == IF off > HEADER_LENGTH + tag
             THEN Filler(200, off - (HEADER_LENGTH + tag)) ELSE << >>
  IN <<66, 77>> \o to_bytes(off + npix, INT_SIZE) \o <<0, 0, 0, 0>> \o
     to_bytes(off, INT_SIZE) \o to_bytes(tag, INT_SIZE) \o dib \o gap \o
     Filler(100, npix)

\* complete files with the pixel array right after the DIB header: every
\* width, depth and pixel-array length up to longest
RegularFiles(longest) ==
  {BmpFile(w, bits, 54, BITMAPINFOHEADER, n) :
     w \in 1..MaxWidth, bits \in BitDepths, n \in 0..longest}

\* complete files with bytes between the DIB header and the pixel array
GapFiles ==
  {BmpFile(MaxWidth, 8, off, BITMAPINFOHEADER, n) :
     off \in {55, 57}, n \in {0, MaxPixelBytes}}

\* complete files with a zero width or a depth below one byte
DegenerateFiles ==
  {BmpFile(w, bits, 54, BITMAPINFOHEADER, MaxPixelBytes) :
     w \in {0, MaxWidth}, bits \in {0, 4, 8}}

\* files with an offset below the end of the DIB header, or an unregistered
\* or tiny DIB length
OddFiles ==
  {BmpFile(MaxWidth, 8, off, tag, MaxPixelBytes) :
     off \in {50, 53, 54}, tag \in {2, 3, 12, BITMAPINFOHEADER}}

\* files cut short inside the file header, the length field, the DIB body
\* and the bytes before the pixel array
CutFiles ==
  {PySlice(BmpFile(MaxWidth, 8, off, BITMAPINFOHEADER, MaxPixelBytes), 0, cut) :
     off \in {54, 57}, cut \in {0, 10, 15, 18, 24, 30, 55}}

\* the files of the header and save runs (one more pixel byte, so that they
\* hold a full 2 x 2 image), and those of the pixel and enumeration runs
HeaderFiles == RegularFiles(MaxPixelBytes + 1) \cup GapFiles \cup OddFiles \cup CutFiles

PixelFiles == RegularFiles(MaxPixelBytes) \cup DegenerateFiles

\* ==================================================================== state
VARIABLES
  file,     \* the bytes of the file at the path given to Bitmap(filename)
  st,       \* "new" before Bitmap(filename), then "loaded" or "failed"
  err,      \* the exception raised by the latest call, NoError if none
  info,     \* Bitmap.__bitmap_info
  bytes,    \* Bitmap.__bytes
  p,        \* the Pixel the caller holds: << >> or <<Pixel>>
  out,      \* what the latest call wrote to disk: << >>, or <<content>> after save_as
  gen,      \* the generator made by the latest enumerate_pixels()
  item,     \* the Pixel the generator yielded last: << >> or <<Pixel>>
  touched,  \* history: set_pixel has been called
  clean,    \* history: every set_pixel so far succeeded on in-bounds (x, y)
  setlog    \* history: linear pixel index -> values of its last set_pixel

vars == <<file, st, err, info, bytes, p, out, gen, item, touched, clean, setlog>>

NoGenerator ==
  [state |-> "none", pixel_count |-> 0, bmp_width |-> 0, k |-> 0, positions |-> << >>]

InitWith(files) ==
  /\ file \in files
  /\ st = "new"
  /\ err = NoError
  /\ info = NoHeaderInfo(NoError)
  /\ bytes = << >>
  /\ p = << >>
  /\ out = << >>
  /\ gen = NoGenerator
  /\ item = << >>
  /\ touched = FALSE
  /\ clean = TRUE
  /\ setlog = << >>

\* 0 <= x < width() and 0 <= y < height()
InBounds(x, y) ==
  /\ height(info, bytes).err = NoError
  /\ 0 <= x /\ x < width(info)
  /\ 0 <= y /\ y < height(info, bytes).val

\* Bitmap(filename)
Construct ==
  /\ st = "new"
  /\ LET r == Bitmap_init(file)
     IN /\ st' = IF r.err = NoError THEN "loaded" ELSE "failed"
        /\ err' = r.err
        /\ info' = r.info
        /\ bytes' = r.bytes
  /\ UNCHANGED <<file, p, out, gen, item, touched, clean, setlog>>

\* p = bmp.get_pixel(x, y)
GetPixel(x, y) ==
  /\ st = "loaded"
  /\ p' = <<get_pixel(info, bytes, x, y)>>
  /\ err' = NoError
  /\ out' = << >>
  /\ UNCHANGED <<file, st, info, bytes, gen, item, touched, clean, setlog>>

\* what a call set_pixel(x, y, pixel) does to the bitmap (and the history)
SetPixelCall(x, y, pixel) ==
  LET r == set_pixel(info, bytes, x, y, pixel)
  IN /\ err' \in r.errs
     /\ bytes' = r.bytes
     /\ out' = << >>
     /\ touched' = TRUE
     /\ clean' = (clean /\ InBounds(x, y) /\ err' = NoError)
     /\ setlog' = IF clean'
                  THEN LET idx == x + y * width(info)
                       IN [k \in DOMAIN setlog \cup {idx} |->
                             IF k = idx THEN pixel ELSE setlog[k]]
                  ELSE << >>

\* bmp.set_pixel(x, y, pixel)
SetPixel(x, y, pixel) ==
  /\ st = "loaded"
  /\ SetPixelCall(x, y, pixel)
  /\ UNCHANGED <<file, st, info, p, gen, item>>

\* update_pixel_data that also refreshes the handle's snapshot
UpdatePixelDataRefreshing(pixel) ==
  /\ st = "loaded"
  /\ p # << >>
  /\ SetPixelCall(p[1].x, p[1].y, pixel)
  /\ p' = <<Pixel(p[1].x, p[1].y, IF err' = NoError THEN pixel ELSE p[1].pixel_data)>>
  /\ UNCHANGED <<file, st, info, gen, item>>

\* p.update_pixel_data(pixel): set_pixel at the handle's own coordinates
UpdatePixelData(pixel) ==
  /\ st = "loaded"
  /\ p # << >>
  /\ SetPixelCall(p[1].x, p[1].y, pixel)
  /\ UNCHANGED <<file, st, info, p, gen, item>>

\* bmp.save_as(filename)
SaveAs ==
  /\ st = "loaded"
  /\ out' = <<save_as(info, bytes)>>
  /\ err' = NoError
  /\ UNCHANGED <<file, st, info, bytes, p, gen, item, touched, clean, setlog>>

\* g = bmp.enumerate_pixels(): a generator object, no code of the body runs
EnumeratePixels ==
  /\ st = "loaded"
  /\ gen' = [NoGenerator EXCEPT !.state = "created"]
  /\ item' = << >>
  /\ err' = NoError
  /\ out' = << >>
  /\ UNCHANGED <<file, st, info, bytes, p, touched, clean, setlog>>

\* next(g): on the first call the body runs up to the loop; then one pointer
\* is taken from the generator expression and get_pixel makes the item, or
\* the generator ends
NextPixel ==
  /\ st = "loaded"
  /\ gen.state \in {"created", "running"}
  /\ LET s == enumerate_start(info, bytes)
         g == IF gen.state = "running" THEN gen
              ELSE [gen EXCEPT !.state = "running", !.pixel_count = s.pixel_count,
                               !.bmp_width = s.bmp_width]
     IN IF gen.state = "created" /\ s.err # NoError
        THEN /\ gen' = [gen EXCEPT !.state = "done"]
             /\ err' = s.err
             /\ item' = item
        ELSE IF g.k >= g.pixel_count
        THEN /\ gen' = [g EXCEPT !.state = "done"]
             /\ err' = NoError
             /\ item' = item
        ELSE IF g.bmp_width = 0
        THEN /\ gen' = [g EXCEPT !.state = "done"]
             /\ err' = DivisionError
             /\ item' = item
        ELSE LET ptr == pixel_ptr(g.k, g.bmp_width)
             IN /\ item' = <<get_pixel(info, bytes, ptr[1], ptr[2])>>
                /\ gen' = [g EXCEPT !.k = g.k + 1,
                                    !.positions = Append(g.positions, ptr)]
                /\ err' = NoError
  /\ out' = << >>
  /\ UNCHANGED <<file, st, info, bytes, p, touched, clean, setlog>>

SetPixelAny == \E x \in Xs, y \in Ys, pixel \in PixelTuples : SetPixel(x, y, pixel)

GetPixelAny == \E x \in Xs, y \in Ys : GetPixel(x, y)

UpdatePixelDataAny == \E pixel \in PixelTuples : UpdatePixelData(pixel)

\* load, mutate, save
NextSave == Construct \/ SetPixelAny \/ SaveAs

SpecSave == InitWith(HeaderFiles) /\ [][NextSave]_vars

\* load, pixel handles and mutation
NextPixels == Construct \/ GetPixelAny \/ SetPixelAny \/ UpdatePixelDataAny

SpecPixels == InitWith(PixelFiles) /\ [][NextPixels]_vars

\* load, iteration and mutation
NextEnum == Construct \/ EnumeratePixels \/ NextPixel \/ SetPixelAny

SpecEnum == InitWith(PixelFiles) /\ [][NextEnum]_vars

\* =============================================================== properties
\* the fields a file declares, read from its raw bytes
FileOffset == from_bytes(PySlice(file, LOC_BMP_START_OFFSET, HEADER_LENGTH))

FileTag == from_bytes(PySlice(file, HEADER_LENGTH, HEADER_LENGTH + INT_SIZE))

\* DIB tag 40, offset at least 54, file at least offset bytes long
WellFormed ==
  /\ FileTag = BITMAPINFOHEADER
  /\ FileOffset >= HEADER_LENGTH + BITMAPINFOHEADER
  /\ Len(file) >= FileOffset

IsByte(v) == 0 <= v /\ v < ByteRange

\* C1: a well-formed file that is loaded and saved with no set_pixel in
\* between is written back byte for byte: the file header, the 4 length
\* bytes, the DIB body, the bytes before the pixel array and the pixel bytes
\* are the file's own, in that order.
C1_RoundTrip ==
  (WellFormed /\ out # << >> /\ ~touched) =>
    /\ out[1] = file
    /\ info.header = PySlice(file, 0, HEADER_LENGTH)
    /\ info.dib_header_len_bytes = PySlice(file, HEADER_LENGTH, HEADER_LENGTH + INT_SIZE)
    /\ info.dib_header = PySlice(file, HEADER_LENGTH + INT_SIZE, HEADER_LENGTH + FileTag)
    /\ info.other_headers = PySlice(file, HEADER_LENGTH + FileTag, FileOffset)
    /\ bytes = PySlice(file, FileOffset, Len(file))

C1_Witness ==
  /\ WellFormed /\ out # << >> /\ ~touched
  /\ info.other_headers # << >>
  /\ bytes # << >>

\* the byte save_as must write at file position i (from 1) after the logged
\* set_pixel calls: the value last set if i lies in the range of a set pixel,
\* the loaded file's byte otherwise
ExpectedByte(i) ==
  LET bpp == bytes_per_pixel(info)
      j == i - 1 - info.bmpStartOffset
  IN IF bpp > 0 /\ j >= 0 /\ (j \div bpp) \in DOMAIN setlog
     THEN setlog[j \div bpp][(j % bpp) + 1]
     ELSE file[i]

\* C2: after any sequence of successful set_pixel calls on in-bounds (x, y),
\* save_as writes a file as long as the loaded one that differs from it only
\* in the byte ranges of the pixels set, which hold the values last set.
C2_SaveAfterSets ==
  (out # << >> /\ clean) =>
    /\ Len(out[1]) = Len(file)
    /\ \A i \in 1..Len(file) : out[1][i] = ExpectedByte(i)

\* two pixels set, one of them in a later row of an image two pixels wide
C2_Witness ==
  /\ out # << >> /\ clean
  /\ Cardinality(DOMAIN setlog) >= 2
  /\ width(info) >= 2
  /\ \E k \in DOMAIN setlog : k >= width(info)
  /\ out[1] # file

\* x or y outside the image, or the pixel's byte range outside the buffer
OutOfRange(x, y) ==
  LET bpp == bytes_per_pixel(info)
      start_ptr == (x + y * width(info)) * bpp
  IN \/ x < 0 \/ y < 0
     \/ x >= width(info)
     \/ (height(info, bytes).err = NoError /\ y >= height(info, bytes).val)
     \/ start_ptr < 0 \/ start_ptr + bpp > Len(bytes)

\* C3: every pixel access is bounds-checked: an out-of-range get_pixel
\* raises and returns no Pixel, an out-of-range set_pixel raises and changes
\* no byte of the buffer.
C3_BoundsChecked ==
  [][st = "loaded" =>
       \A x \in Xs, y \in Ys :
         OutOfRange(x, y) =>
           /\ GetPixel(x, y) => (err' # NoError /\ p' = p)
           /\ \A pixel \in PixelTuples :
                SetPixel(x, y, pixel) => (err' # NoError /\ bytes' = bytes)]_vars

\* C4: on a loaded bitmap, set_pixel with a tuple whose length is not
\* bytes_per_pixel raises the tuple-length error, and nothing else, for every
\* (x, y), and the buffer after the call is the buffer before it.
C4_ArityRejected ==
  st = "loaded" =>
    \A pixel \in PixelTuples :
      Len(pixel) # bytes_per_pixel(info) =>
        \A x \in Xs, y \in Ys :
          LET r == set_pixel(info, bytes, x, y, pixel)
          IN r.errs = {TupleLengthError} /\ r.bytes = bytes

C4_Witness ==
  /\ st = "loaded" /\ err = TupleLengthError
  /\ bytes # << >>
  /\ bytes = PySlice(file, FileOffset, Len(file))

\* the positions [0, width) x [0, height)
Grid == {<<x, y>> : x \in 0..(width(info) - 1), y \in 0..(height(info, bytes).val - 1)}

\* C5: a finished enumeration has yielded exactly width() * height() pixels,
\* at pairwise distinct positions that are exactly the grid.
C5_EnumerationCoversGrid ==
  (gen.state = "done" /\ err = NoError /\ height(info, bytes).err = NoError) =>
    /\ Len(gen.positions) = width(info) * height(info, bytes).val
    /\ {gen.positions[i] : i \in 1..Len(gen.positions)} = Grid
    /\ \A i, j \in 1..Len(gen.positions) :
         gen.positions[i] = gen.positions[j] => i = j

\* C6: for a handle p of an in-bounds pixel, the set_pixel that
\* p.update_pixel_data(newVals) makes, with bytes_per_pixel byte values,
\* succeeds, and a fresh get_pixel at p's position then returns newVals; p's
\* own position and pixel_data stay as captured under that and every other
\* mutation: a step changes the handle only if it is the caller's next
\* get_pixel.
C6_WriteThroughStaleSnapshot ==
  /\ [](st = "loaded" /\ p # << >> /\ InBounds(p[1].x, p[1].y) =>
          \A pixel \in PixelTuples :
            (Len(pixel) = bytes_per_pixel(info) /\ \A i \in 1..Len(pixel) : IsByte(pixel[i])) =>
              LET r == set_pixel(info, bytes, p[1].x, p[1].y, pixel)
              IN /\ r.errs = {NoError}
                 /\ get_pixel(info, r.bytes, p[1].x, p[1].y).pixel_data = pixel)
  /\ [][(p # << >> /\ p' # p) => \E x \in Xs, y \in Ys : GetPixel(x, y)]_vars

C6_Witness ==
  /\ p # << >> /\ err = NoError
  /\ InBounds(p[1].x, p[1].y)
  /\ p[1].pixel_data = PySlice(file, FileOffset + (p[1].x + p[1].y * width(info)) * bytes_per_pixel(info),
                               FileOffset + (p[1].x + p[1].y * width(info) + 1) * bytes_per_pixel(info))
  /\ get_pixel(info, bytes, p[1].x, p[1].y).pixel_data # p[1].pixel_data

\* C7: a set_pixel or update_pixel_data call that raises, whatever the
\* cause, leaves the buffer byte for byte as it was before the call.
C7_FailureAtomic ==
  [][\A pixel \in PixelTuples :
       /\ \A x \in Xs, y \in Ys :
            (SetPixel(x, y, pixel) /\ err' # NoError) => bytes' = bytes
       /\ (UpdatePixelData(pixel) /\ err' # NoError) => bytes' = bytes]_vars

\* the stream ends inside the file header, or inside the DIB body that a
\* registered length tag announces
ShortRead ==
  \/ Len(file) < HEADER_LENGTH
  \/ /\ Len(file) >= HEADER_LENGTH + INT_SIZE
     /\ FileTag \in DOMAIN HEADER_MAP
     /\ Len(file) < HEADER_LENGTH + FileTag

\* C8: construction raises on every short read of the header: no header
\* object is produced from a stream that ends inside the file header or the
\* DIB body.
C8_ShortReadRaises ==
  (st # "new" /\ ShortRead) => (st = "failed" /\ err # NoError)

\* pixelArrayOffset - (14 + dibHeaderLength), for a complete header
Trailing == FileOffset - (HEADER_LENGTH + FileTag)

\* C9: with a complete header of a registered tag, construction raises when
\* the trailing length is negative; otherwise the trailing blob has exactly
\* that many bytes and the bytes from pixelArrayOffset on are the pixel buffer.
C9_NegativeTrailingRaises ==
  (st # "new" /\ FileTag \in DOMAIN HEADER_MAP /\ Len(file) >= HEADER_LENGTH + FileTag) =>
    IF Trailing < 0
    THEN st = "failed" /\ err # NoError
    ELSE /\ st = "loaded"
         /\ Len(info.other_headers) = Trailing
         /\ bytes = PySlice(file, FileOffset, Len(file))

\* C10: for a bitmap with a positive width and bytes_per_pixel, the k-th
\* next() of a generator (k from 0) yields position (k mod width, k div width)
\* with the buffer's bytes [k*bpp, (k+1)*bpp) as they are at that moment, for
\* every k below pixelCount = len(bytes) div bpp; the next() after that ends
\* the generator; every enumerate_pixels() starts at index 0.
C10_RowMajorLazy ==
  [][/\ (NextPixel /\ bytes_per_pixel(info) > 0 /\ width(info) > 0) =>
          LET bpp == bytes_per_pixel(info)
              k == gen.k
          IN IF k < Len(bytes) \div bpp
             THEN /\ item' = <<Pixel(k % width(info), k \div width(info),
                                     SubSeq(bytes, k * bpp + 1, (k + 1) * bpp))>>
                  /\ gen'.k = k + 1
                  /\ gen'.state = "running"
                  /\ err' = NoError
             ELSE /\ gen'.state = "done"
                  /\ item' = item
                  /\ err' = NoError
     /\ EnumeratePixels => (gen'.k = 0 /\ gen'.state = "created")
     /\ (gen.state = "created") => gen.k = 0]_vars

C10_Witness ==
  /\ gen.state = "running" /\ gen.k >= 2
  /\ item # << >> /\ item[1].y >= 1
  /\ touched
  /\ item[1].pixel_data # PySlice(file, FileOffset + (gen.k - 1) * bytes_per_pixel(info),
                                  FileOffset + gen.k * bytes_per_pixel(info))

====
